---- MODULE Spec2Model ----
(***************************************************************************)
(* Chain resolution engine of the quiz solver (src/quiz_solver.py), with   *)
(* the submission client (src/answer_submitter.py) and the single-step     *)
(* endpoint (src/main.py).                                                 *)
(*                                                                         *)
(* One process-wide QuizSolver instance serves every request.  A request   *)
(* is a coroutine; it runs without interruption from one await to the      *)
(* next, so every action below is the code between two suspension points.  *)
(* The remote site, the resolver and the clock are the environment: what   *)
(* they return is chosen with \E from small sets.                          *)
(*                                                                         *)
(* Values: URLs, answers and submit endpoints are integers, None is 0, and *)
(* Unhashable stands for a JSON list or object (truthy, not hashable).     *)
(***************************************************************************)
EXTENDS Integers, Sequences, FiniteSets, TLC

\* ---------------------------------------------------------------- bounds
NumRuns == 2
NumUrls == 2

\* ------------------------------------------------------------- constants
max_attempts == 10
None == 0
Unhashable == -1
SubmitPath == 1
AnswerValue == 1

Runs == 1..NumRuns
Urls == 1..NumUrls
\* A site long enough for a run to reach the attempt cap: pages 1, 2, ...,
\* max_attempts + 1, each linking to the next.
CapUrls == 1..(max_attempts + 1)
\* Under ApiSpec the first request goes to POST /quiz-chain and the last one
\* to POST /quiz.
ApiChainRuns == {r \in Runs : \A q \in Runs : r <= q}
QuizRuns == {r \in Runs : \A q \in Runs : q <= r}
Answers == {None, AnswerValue}
SubmitUrls == {None, SubmitPath}

VARIABLES
    visited_urls,   \* quiz_solver.visited_urls, shared by every run
    pc,             \* position of each request's coroutine
    start_url,      \* argument of solve_quiz_chain
    current_url,    \* local of solve_quiz_chain
    attempt,        \* local of solve_quiz_chain
    results,        \* local of solve_quiz_chain, the returned summary
    exit,           \* which exit of the while loop the run took
    result,         \* local of _process_single_quiz
    posts,          \* submission requests handed to the HTTP client
    request,        \* the request body each endpoint call was given
    fetch,          \* state of each request's page retrieval in progress
    soup,           \* quiz_parser.soup, shared by every request
    parsed,         \* the calls of parse_quiz_instructions made so far
    call,           \* a function under study and its argument
    ret             \* what that function returned

vars == <<visited_urls, pc, start_url, current_url, attempt, results, exit,
          result, posts, request, fetch, soup, parsed, call, ret>>

\* The state outside the orchestrator and the endpoints.
others == <<fetch, soup, parsed, call, ret>>

\* --------------------------------------------------------------- helpers
Truthy_Always(v) == TRUE

\* Python truthiness of a URL value: None is falsy, everything modelled
\* here that is not None is truthy.
Truthy(v) == v # None

\* The result dict built at the top of _process_single_quiz.  'instructions'
\* is kept as the one field of it the solver reads, submit_url.
NewResult(url) ==
    [url |-> url, success |-> FALSE, error |-> "none", submit_url |-> None,
     answer |-> None, correct |-> FALSE, next_url |-> None]

\* The synthetic result of the except asyncio.TimeoutError branch.  Keys the
\* dict does not have read as None through .get().
TimeoutResult(url) ==
    [url |-> url, success |-> FALSE, error |-> "timeout", submit_url |-> None,
     answer |-> None, correct |-> FALSE, next_url |-> None]

\* The summary built at the top of solve_quiz_chain.
NewResults(url) ==
    [start_url |-> url, completed |-> FALSE, total_questions |-> 0,
     correct_answers |-> 0, chain |-> <<>>]

\* while current_url and attempt < self.max_attempts
LoopCondition(url, att) == Truthy(url) /\ att < max_attempts

IsVisited_Never(url, visited) == FALSE

\* current_url in self.visited_urls
IsVisited(url, visited) == url \in visited

ShouldSubmit_AnswerOnly(answer, submit_url) == answer # None

\* if result['answer'] is not None and submit_url is not None
ShouldSubmit(answer, submit_url) == answer # None /\ submit_url # None

\* main.start_quiz: if processing_result.get('answer') is not None and
\* instructions.get('submit_url') is not None
QuizShouldSubmit(answer, submit_url) == answer # None /\ submit_url # None

AddCorrect_Always(n, quiz_result) == n + 1

\* if quiz_result.get('correct'): results['correct_answers'] += 1
AddCorrect(n, quiz_result) == IF quiz_result.correct THEN n + 1 ELSE n

\* ------------------------------------------------------ submission client
\* What the remote endpoint can do with one POST: the request fails in
\* transport, or it is answered with a status and a body, which is JSON or
\* not and gives or gives not 'correct', 'reason' and 'url' (None and
\* NoReason: the key is missing or null). submit_answer takes the status
\* 200 as the success and every other status, 201 too, as a failure.
NoReason == "None"

ErrorResponses ==
    {[transport |-> "error", status_code |-> 0, json |-> FALSE,
      has_correct |-> FALSE, correct |-> FALSE, reason |-> NoReason,
      url |-> None],
     [transport |-> "ok", status_code |-> 500, json |-> FALSE,
      has_correct |-> FALSE, correct |-> FALSE, reason |-> NoReason,
      url |-> None],
     [transport |-> "ok", status_code |-> 200, json |-> FALSE,
      has_correct |-> FALSE, correct |-> FALSE, reason |-> NoReason,
      url |-> None],
     [transport |-> "ok", status_code |-> 201, json |-> TRUE,
      has_correct |-> TRUE, correct |-> TRUE, reason |-> NoReason,
      url |-> None]}

OkResponses(urls) ==
    {[transport |-> "ok", status_code |-> 200, json |-> TRUE,
      has_correct |-> hc, correct |-> c, reason |-> rs, url |-> u] :
        hc \in BOOLEAN, c \in BOOLEAN, rs \in {NoReason, "wrong answer"}, u \in urls}

\* The responses of the long site to the submission for page u: the link to
\* page u + 1, a link back to page 1, no link, or a malformed one.
CapResponses(u) == ErrorResponses \cup
    {r \in OkResponses({None, Unhashable, 1} \cup ({u + 1} \cap CapUrls)) :
        r.correct => r.has_correct}

Responses == ErrorResponses \cup
    {r \in OkResponses(Urls \cup {None, Unhashable}) : r.correct => r.has_correct}

\* The two error dicts of submit_answer: 'status', 'error' (the text of the
\* failure) and 'correct'. next_url and reason are what .get() gives on
\* them, keys is the set of their keys.
ErrorVerdict ==
    [status |-> "error", correct |-> FALSE, reason |-> NoReason,
     next_url |-> None, keys |-> {"status", "error", "correct"}]

submit_answer_DropsUrl(resp) ==
    IF resp.transport = "error" THEN ErrorVerdict
    ELSE IF resp.status_code = 200
         THEN IF ~resp.json THEN ErrorVerdict
              ELSE [status |-> "submitted",
                    correct |-> IF resp.has_correct THEN resp.correct ELSE FALSE,
                    reason |-> resp.reason,
                    next_url |-> None,
                    keys |-> {"status", "correct", "reason", "next_url",
                              "response"}]
         ELSE ErrorVerdict

\* AnswerSubmitter.submit_answer: the verdict made of one response.
submit_answer(resp) ==
    IF resp.transport = "error" THEN ErrorVerdict
    ELSE IF resp.status_code = 200
         THEN IF ~resp.json THEN ErrorVerdict
              ELSE [status |-> "submitted",
                    correct |-> IF resp.has_correct THEN resp.correct ELSE FALSE,
                    reason |-> resp.reason,
                    next_url |-> resp.url,
                    keys |-> {"status", "correct", "reason", "next_url",
                              "response"}]
         ELSE ErrorVerdict

\* ------------------------------------------------------------- requests
\* main.student_secrets: the one registered email and its secret.
RegisteredEmail == "23f2000595@ds.study.iitm.ac.in"
RegisteredSecret == "google_baba25"

student_secrets == [e \in {RegisteredEmail} |-> RegisteredSecret]

\* A url field that is empty or all whitespace.
BlankUrl == None

NoRequest == [email |-> "", secret |-> "", url |-> BlankUrl]

\* The request bodies tried: each string field empty, all whitespace,
\* the registered value or another value.
Requests ==
    [email : {"", " ", RegisteredEmail, "someone@example.com"},
     secret : {"", " ", RegisteredSecret, "wrong_secret"},
     url : {BlankUrl} \cup Urls]

\* str.strip() on the strings above.
strip(s) == IF s = " " THEN "" ELSE s

\* The checks both endpoints start with: the status of the HTTPException
\* raised, or 200 when the request goes on.
Validate_BlankUrlPasses(req) ==
    IF strip(req.email) = "" \/ strip(req.secret) = ""
    THEN 400
    ELSE IF req.email \notin DOMAIN student_secrets
    THEN 403
    ELSE IF student_secrets[req.email] # req.secret
    THEN 403
    ELSE 200
Validate(req) ==
    IF strip(req.email) = "" \/ strip(req.secret) = "" \/ req.url = BlankUrl
    THEN 400
    ELSE IF req.email \notin DOMAIN student_secrets
    THEN 403
    ELSE IF student_secrets[req.email] # req.secret
    THEN 403
    ELSE 200

\* The pc of a request answered with HTTPException(status_code).
Rejected(status_code) == IF status_code = 400 THEN "http_400" ELSE "http_403"

\* A request body that passes the checks of the endpoints.
ValidRequest(url) ==
    [email |-> RegisteredEmail, secret |-> RegisteredSecret, url |-> url]

\* What a page retrieval can bring back: the content the site serves, or a
\* different content when the site has changed between two retrievals.
ServedBody == 1
ChangedBody == 2
\* driver.page_source after the page's scripts have run.
RenderedBody == 3

\* No retrieval made yet: the locals of scrape_page before its first line.
\* gets counts the client.get calls made for the page, static_body is the
\* text of the first response, body/error/status are what scrape_page gave
\* back and the status of the response the body was taken from, and path
\* is the way the call was left.
FetchIdle ==
    [pc |-> "idle", driver |-> "none", gets |-> 0, static_body |-> None,
     body |-> None, error |-> FALSE, status |-> 0, path |-> "none"]

NoCall == [fn |-> "none"]

\* QuizParser.__init__: self.soup = None, no page parsed yet.
NoSoup == <<"None">>

\* ------------------------------------------------------------------ Init
Init ==
    /\ visited_urls = {}
    /\ pc = [r \in Runs |-> "idle"]
    /\ start_url = [r \in Runs |-> None]
    /\ current_url = [r \in Runs |-> None]
    /\ attempt = [r \in Runs |-> 0]
    /\ results = [r \in Runs |-> NewResults(None)]
    /\ exit = [r \in Runs |-> "none"]
    /\ result = [r \in Runs |-> NewResult(None)]
    /\ posts = {}
    /\ request = [r \in Runs |-> NoRequest]
    /\ fetch = [r \in Runs |-> FetchIdle]
    /\ soup = NoSoup
    /\ parsed = {}
    /\ call = NoCall
    /\ ret = NoCall

\* --------------------------------------------------------------- actions
\* POST /quiz-chain reaches quiz_solver.solve_quiz_chain(start_url=url):
\* the locals are set up; no await happens before the loop head.
StartChainRequest(r, req) ==
    /\ pc[r] = "idle"
    /\ pc' = [pc EXCEPT ![r] = "loop"]
    /\ request' = [request EXCEPT ![r] = req]
    /\ start_url' = [start_url EXCEPT ![r] = req.url]
    /\ current_url' = [current_url EXCEPT ![r] = req.url]
    /\ attempt' = [attempt EXCEPT ![r] = 0]
    /\ results' = [results EXCEPT ![r] = NewResults(req.url)]
    /\ UNCHANGED <<visited_urls, exit, result, posts, others>>

\* The same for a request with the registered credentials and URL url.
StartChain(r, url) == StartChainRequest(r, ValidRequest(url))

\* POST /quiz-chain with a body that passes the checks.
AcceptChain(r, req) == Validate(req) = 200 /\ StartChainRequest(r, req)

\* POST /quiz-chain with a body that fails them: HTTPException, and the
\* handler is left before quiz_solver is called.
RejectChain(r, req) ==
    /\ pc[r] = "idle"
    /\ Validate(req) # 200
    /\ pc' = [pc EXCEPT ![r] = Rejected(Validate(req))]
    /\ request' = [request EXCEPT ![r] = req]
    /\ UNCHANGED <<visited_urls, start_url, current_url, attempt, results,
                   exit, result, posts, others>>

LoopHead_CapFromRequest(r) ==
    /\ pc[r] = "loop"
    /\ UNCHANGED others
    /\ IF ~(Truthy(current_url[r]) /\ attempt[r] < request[r].max_questions)
       THEN /\ pc' = [pc EXCEPT ![r] = "done"]
            /\ exit' = [exit EXCEPT ![r] = "condition"]
            /\ UNCHANGED <<visited_urls, attempt, results, result>>
       ELSE /\ attempt' = [attempt EXCEPT ![r] = @ + 1]
            /\ IF current_url[r] = Unhashable
               THEN /\ pc' = [pc EXCEPT ![r] = "raised"]
                    /\ UNCHANGED <<visited_urls, results, result, exit>>
               ELSE IF IsVisited(current_url[r], visited_urls)
               THEN /\ pc' = [pc EXCEPT ![r] = "done"]
                    /\ exit' = [exit EXCEPT ![r] = "cycle"]
                    /\ UNCHANGED <<visited_urls, results, result>>
               ELSE /\ visited_urls' = visited_urls \cup {current_url[r]}
                    /\ results' = [results EXCEPT
                                     ![r].total_questions = @ + 1]
                    /\ result' = [result EXCEPT ![r] = NewResult(current_url[r])]
                    /\ pc' = [pc EXCEPT ![r] = "scrape"]
                    /\ UNCHANGED exit
    /\ UNCHANGED <<start_url, current_url, posts, request>>

\* The loop head, run at entry and after each asyncio.sleep(0.5): the while
\* test, attempt += 1, the visited check, and the start of the step up to
\* the await of scraper.scrape_page.
LoopHead(r) ==
    /\ pc[r] = "loop"
    /\ UNCHANGED others
    /\ IF ~LoopCondition(current_url[r], attempt[r])
       THEN /\ pc' = [pc EXCEPT ![r] = "done"]
            /\ exit' = [exit EXCEPT ![r] = "condition"]
            /\ UNCHANGED <<visited_urls, attempt, results, result>>
       ELSE /\ attempt' = [attempt EXCEPT ![r] = @ + 1]
            /\ IF current_url[r] = Unhashable
               THEN \* TypeError: unhashable type, outside every try
                    /\ pc' = [pc EXCEPT ![r] = "raised"]
                    /\ UNCHANGED <<visited_urls, results, result, exit>>
               ELSE IF IsVisited(current_url[r], visited_urls)
               THEN /\ pc' = [pc EXCEPT ![r] = "done"]
                    /\ exit' = [exit EXCEPT ![r] = "cycle"]
                    /\ UNCHANGED <<visited_urls, results, result>>
               ELSE /\ visited_urls' = visited_urls \cup {current_url[r]}
                    /\ results' = [results EXCEPT
                                     ![r].total_questions = @ + 1]
                    /\ result' = [result EXCEPT ![r] = NewResult(current_url[r])]
                    /\ pc' = [pc EXCEPT ![r] = "scrape"]
                    /\ UNCHANGED exit
    /\ UNCHANGED <<start_url, current_url, posts, request>>

\* Lines 58-72 of solve_quiz_chain, run when the step has its quiz_result.
FinishStep(r, quiz_result) ==
    LET nxt == quiz_result.next_url
        res == [results[r] EXCEPT
                  !.chain = Append(@, quiz_result),
                  !.correct_answers = AddCorrect(@, quiz_result)]
    IN /\ current_url' = [current_url EXCEPT ![r] = nxt]
       /\ result' = [result EXCEPT ![r] = quiz_result]
       /\ IF ~Truthy(nxt)
          THEN /\ results' = [results EXCEPT ![r] = [res EXCEPT !.completed = TRUE]]
               /\ pc' = [pc EXCEPT ![r] = "done"]
               /\ exit' = [exit EXCEPT ![r] = "no_next_url"]
          ELSE /\ results' = [results EXCEPT ![r] = res]
               /\ pc' = [pc EXCEPT ![r] = "loop"]
               /\ UNCHANGED exit

\* scraper.scrape_page returns (None, error).
ScrapeErrorStep(r) ==
    /\ pc[r] = "scrape"
    /\ UNCHANGED request
    /\ FinishStep(r, [result[r] EXCEPT !.error = "scraping_failed"])
    /\ UNCHANGED <<visited_urls, start_url, attempt, posts>>

\* The same when nothing else is going on.
ScrapeError(r) == ScrapeErrorStep(r) /\ UNCHANGED others

\* scraper.scrape_page returns (html, None); the page is parsed, its
\* submit_url is su, and process_quiz_task is awaited.
ScrapeOkStep(r, su) ==
    /\ pc[r] = "scrape"
    /\ UNCHANGED request
    /\ result' = [result EXCEPT ![r].submit_url = su]
    /\ pc' = [pc EXCEPT ![r] = "resolve"]
    /\ UNCHANGED <<visited_urls, start_url, current_url, attempt, results,
                   exit, posts>>

\* The same when nothing else is going on.
ScrapeOk(r, su) == ScrapeOkStep(r, su) /\ UNCHANGED others

\* process_quiz_task returns {'answer': ans}; the answer is submitted when
\* there is one and a submit URL, else the step ends without a submission.
ResolveReturnStep(r, ans) ==
    /\ pc[r] = "resolve"
    /\ UNCHANGED request
    /\ IF ShouldSubmit(ans, result[r].submit_url)
       THEN /\ result' = [result EXCEPT ![r].answer = ans]
            /\ posts' = posts \cup
                 {[run |-> r, step |-> attempt[r], quiz_url |-> result[r].url,
                   submit_url |-> result[r].submit_url, answer |-> ans]}
            /\ pc' = [pc EXCEPT ![r] = "submit"]
            /\ UNCHANGED <<current_url, results, exit>>
       ELSE /\ FinishStep(r, [result[r] EXCEPT
                                !.answer = ans,
                                !.error = "no_answer_or_submit_url",
                                !.success = FALSE])
            /\ UNCHANGED posts
    /\ UNCHANGED <<visited_urls, start_url, attempt>>

\* The same when nothing else is going on.
ResolveReturn(r, ans) == ResolveReturnStep(r, ans) /\ UNCHANGED others

SubmitReturn_SuccessIsCorrect(r, resp) ==
    /\ pc[r] = "submit"
    /\ UNCHANGED <<request, others>>
    /\ LET submission_result == submit_answer(resp)
       IN FinishStep(r, [result[r] EXCEPT
                           !.correct = submission_result.correct,
                           !.next_url = submission_result.next_url,
                           !.success = submission_result.correct])
    /\ UNCHANGED <<visited_urls, start_url, attempt, posts>>

\* answer_submitter.submit_answer returns the verdict of response resp.
SubmitReturn(r, resp) ==
    /\ pc[r] = "submit"
    /\ UNCHANGED <<request, others>>
    /\ LET submission_result == submit_answer(resp)
       IN FinishStep(r, [result[r] EXCEPT
                           !.correct = submission_result.correct,
                           !.next_url = submission_result.next_url,
                           !.success = TRUE])
    /\ UNCHANGED <<visited_urls, start_url, attempt, posts>>

\* An exception inside the try of _process_single_quiz (except Exception).
ProcessingErrorStep(r) ==
    /\ pc[r] \in {"scrape", "resolve"}
    /\ UNCHANGED request
    /\ FinishStep(r, [result[r] EXCEPT !.error = "processing_error"])
    /\ UNCHANGED <<visited_urls, start_url, attempt, posts>>

\* The same when nothing else is going on.
ProcessingError(r) == ProcessingErrorStep(r) /\ UNCHANGED others

\* asyncio.wait_for gives up after 30 s while the step is suspended.
StepTimeoutStep(r) ==
    /\ pc[r] \in {"scrape", "resolve", "submit"}
    /\ UNCHANGED request
    /\ FinishStep(r, TimeoutResult(current_url[r]))
    /\ UNCHANGED <<visited_urls, start_url, attempt, posts>>

\* The same when nothing else is going on.
StepTimeout(r) == StepTimeoutStep(r) /\ UNCHANGED others

\* ---------------------------------------------------- POST /quiz (one step)
\* start_quiz up to the await of scraper.scrape_page(request.url).
StartQuizRequest(r, req) ==
    /\ pc[r] = "idle"
    /\ pc' = [pc EXCEPT ![r] = "q_scrape"]
    /\ request' = [request EXCEPT ![r] = req]
    /\ start_url' = [start_url EXCEPT ![r] = req.url]
    /\ result' = [result EXCEPT ![r] = NewResult(req.url)]
    /\ UNCHANGED <<visited_urls, current_url, attempt, results, exit, posts,
                   others>>

\* The same for a request with the registered credentials and URL url.
StartQuiz(r, url) == StartQuizRequest(r, ValidRequest(url))

\* POST /quiz with a body that passes the checks.
AcceptQuiz(r, req) == Validate(req) = 200 /\ StartQuizRequest(r, req)

\* POST /quiz with a body that fails them: HTTPException, and the handler
\* is left before the page is fetched.
RejectQuiz(r, req) ==
    /\ pc[r] = "idle"
    /\ Validate(req) # 200
    /\ pc' = [pc EXCEPT ![r] = Rejected(Validate(req))]
    /\ request' = [request EXCEPT ![r] = req]
    /\ UNCHANGED <<visited_urls, start_url, current_url, attempt, results,
                   exit, result, posts, others>>

\* The fetch failed: HTTPException(500).
QuizScrapeErrorStep(r) ==
    /\ pc[r] = "q_scrape"
    /\ UNCHANGED request
    /\ pc' = [pc EXCEPT ![r] = "q_failed"]
    /\ result' = [result EXCEPT ![r].error = "scraping_failed"]
    /\ UNCHANGED <<visited_urls, start_url, current_url, attempt, results,
                   exit, posts>>

\* The same when nothing else is going on.
QuizScrapeError(r) == QuizScrapeErrorStep(r) /\ UNCHANGED others

\* The fetch returned a body; it is parsed and process_quiz_task awaited.
QuizScrapeOkStep(r, su) ==
    /\ pc[r] = "q_scrape"
    /\ UNCHANGED request
    /\ pc' = [pc EXCEPT ![r] = "q_resolve"]
    /\ result' = [result EXCEPT ![r].submit_url = su]
    /\ UNCHANGED <<visited_urls, start_url, current_url, attempt, results,
                   exit, posts>>

\* The same when nothing else is going on.
QuizScrapeOk(r, su) == QuizScrapeOkStep(r, su) /\ UNCHANGED others

\* process_quiz_task returned; the answer is submitted or the response is
\* built with submission_result = None and next_url = None.
QuizResolveReturnStep(r, ans) ==
    /\ pc[r] = "q_resolve"
    /\ UNCHANGED request
    /\ IF QuizShouldSubmit(ans, result[r].submit_url)
       THEN /\ posts' = posts \cup
                 {[run |-> r, step |-> 0, quiz_url |-> start_url[r],
                   submit_url |-> result[r].submit_url, answer |-> ans]}
            /\ pc' = [pc EXCEPT ![r] = "q_submit"]
       ELSE /\ pc' = [pc EXCEPT ![r] = "q_done"]
            /\ UNCHANGED posts
    /\ result' = [result EXCEPT ![r].answer = ans]
    /\ UNCHANGED <<visited_urls, start_url, current_url, attempt, results, exit>>

\* The same when nothing else is going on.
QuizResolveReturn(r, ans) == QuizResolveReturnStep(r, ans) /\ UNCHANGED others

\* submit_answer returned; next_url is taken from the verdict.
QuizSubmitReturn(r, resp) ==
    /\ pc[r] = "q_submit"
    /\ UNCHANGED <<request, others>>
    /\ LET submission_result == submit_answer(resp)
       IN result' = [result EXCEPT
                       ![r].success = TRUE,
                       ![r].correct = submission_result.correct,
                       ![r].next_url = submission_result.next_url]
    /\ pc' = [pc EXCEPT ![r] = "q_done"]
    /\ UNCHANGED <<visited_urls, start_url, current_url, attempt, results,
                   exit, posts>>

\* Requests to POST /quiz-chain only.
Next ==
    \E r \in Runs :
        \/ \E u \in Urls : StartChain(r, u)
        \/ LoopHead(r)
        \/ ScrapeError(r)
        \/ \E su \in SubmitUrls : ScrapeOk(r, su)
        \/ \E ans \in Answers : ResolveReturn(r, ans)
        \/ \E resp \in Responses : SubmitReturn(r, resp)
        \/ ProcessingError(r)
        \/ StepTimeout(r)

Spec == Init /\ [][Next]_vars

\* One request to POST /quiz-chain for page 1 of the long site.
CapNext ==
    \/ StartChain(1, 1)
    \/ LoopHead(1)
    \/ ScrapeError(1)
    \/ \E su \in SubmitUrls : ScrapeOk(1, su)
    \/ \E ans \in Answers : ResolveReturn(1, ans)
    \/ \E resp \in CapResponses(result[1].url) : SubmitReturn(1, resp)
    \/ ProcessingError(1)
    \/ StepTimeout(1)

CapSpec == Init /\ [][CapNext]_vars

\* The steps of that request once it is in solve_quiz_chain. The event loop
\* resumes the coroutine when what it awaits has returned, when the sleep
\* between two steps is over and, at the latest, when wait_for's 30 s are.
CapStep ==
    \/ LoopHead(1)
    \/ ScrapeError(1)
    \/ \E su \in SubmitUrls : ScrapeOk(1, su)
    \/ \E ans \in Answers : ResolveReturn(1, ans)
    \/ \E resp \in CapResponses(result[1].url) : SubmitReturn(1, resp)
    \/ ProcessingError(1)
    \/ StepTimeout(1)

\* The same request when every await ends.
CapFairSpec == CapSpec /\ WF_vars(CapStep)

\* main.QuizChainRequest: the body of POST /quiz-chain has a fourth field,
\* max_questions: Optional[int] = 10, here null (None), 1, 10 or 20.
MaxQuestions == {None, 1, max_attempts, 2 * max_attempts}
ChainRequest(url, mq) ==
    [email |-> RegisteredEmail, secret |-> RegisteredSecret, url |-> url,
     max_questions |-> mq]

\* One request to POST /quiz-chain for page 1 of the long site, with any
\* max_questions: the endpoint calls solve_quiz_chain(start_url, email,
\* secret) and hands max_questions to nobody.
CapRequestNext ==
    \/ \E mq \in MaxQuestions : AcceptChain(1, ChainRequest(1, mq))
    \/ CapStep

CapRequestSpec == Init /\ [][CapRequestNext]_vars

\* A request to POST /quiz.
QuizNext ==
    \E r \in QuizRuns :
        \/ \E req \in Requests : AcceptQuiz(r, req)
        \/ \E req \in Requests : RejectQuiz(r, req)
        \/ QuizScrapeError(r)
        \/ \E su \in SubmitUrls : QuizScrapeOk(r, su)
        \/ \E ans \in Answers : QuizResolveReturn(r, ans)
        \/ \E resp \in Responses : QuizSubmitReturn(r, resp)

\* A request to POST /quiz-chain.
ApiChainNext ==
    \E r \in ApiChainRuns :
        \/ \E req \in Requests : AcceptChain(r, req)
        \/ \E req \in Requests : RejectChain(r, req)
        \/ LoopHead(r)
        \/ ScrapeError(r)
        \/ \E su \in SubmitUrls : ScrapeOk(r, su)
        \/ \E ans \in Answers : ResolveReturn(r, ans)
        \/ \E resp \in Responses : SubmitReturn(r, resp)
        \/ ProcessingError(r)
        \/ StepTimeout(r)

\* Both endpoints served by the one process, a request to each in flight.
ApiNext == ApiChainNext \/ QuizNext

ApiSpec == Init /\ [][ApiNext]_vars

\* ------------------------------------------- web_scraper.scrape_page
\* The finally clause of a retrieval that may hold a headless driver:
\* `if driver: driver.quit()`.
Finally_KeepDriver(f) == f
Finally(f) == [f EXCEPT !.driver = "none"]

\* scrape_page hands (body, None) to its caller, which parses the page (its
\* submit URL is su) and goes on; in a chain step the parsing may raise.
Deliver(r, su) ==
    \/ ScrapeOkStep(r, su)
    \/ QuizScrapeOkStep(r, su)
    \/ pc[r] = "scrape" /\ ProcessingErrorStep(r)

DeliverError_GoesOn(r) ==
    ScrapeOkStep(r, SubmitPath) \/ QuizScrapeOkStep(r, SubmitPath)

\* scrape_page hands (None, error) to its caller.
DeliverError(r) == ScrapeErrorStep(r) \/ QuizScrapeErrorStep(r)

\* The caller awaits scraper.scrape_page(url): client.get(url) is sent.
FetchStart(r) ==
    /\ pc[r] \in {"scrape", "q_scrape"}
    /\ fetch[r].pc \in {"idle", "returned", "ds_done"}
    /\ fetch' = [fetch EXCEPT ![r] = [FetchIdle EXCEPT !.pc = "get", !.gets = 1]]
    /\ UNCHANGED <<visited_urls, pc, start_url, current_url, attempt, results,
                   exit, result, posts, request, soup, parsed, call, ret>>

\* The static retrieval fails: a transport error, or raise_for_status on a
\* non-success status; except Exception returns (None, error_msg).
StaticFails(r) ==
    /\ fetch[r].pc = "get"
    /\ fetch' = [fetch EXCEPT ![r] = [@ EXCEPT !.pc = "returned",
                    !.error = TRUE, !.path = "static_error"]]
    /\ DeliverError(r)
    /\ UNCHANGED <<soup, parsed, call, ret>>

\* The static retrieval succeeds and _definitely_needs_js says no.
StaticPlain(r, su) ==
    /\ fetch[r].pc = "get"
    /\ fetch' = [fetch EXCEPT ![r] = [@ EXCEPT !.pc = "returned",
                    !.static_body = ServedBody, !.body = ServedBody,
                    !.status = 200, !.path = "static"]]
    /\ Deliver(r, su)
    /\ UNCHANGED <<soup, parsed, call, ret>>

\* The static retrieval succeeds and the page needs rendering:
\* _scrape_with_selenium_fast runs up to its first await. webdriver.Chrome
\* may raise (no driver), driver.get may raise (driver held): both go to the
\* except clause, which sends client.get(url) again; else the code sleeps
\* with the page loaded in the driver.
StaticNeedsJs(r, chrome) ==
    /\ fetch[r].pc = "get"
    /\ pc[r] \in {"scrape", "q_scrape"}
    /\ fetch' = [fetch EXCEPT ![r] =
         IF chrome = "no_driver"
         THEN [@ EXCEPT !.pc = "fallback", !.static_body = ServedBody,
                        !.gets = @ + 1]
         ELSE IF chrome = "nav_error"
         THEN [@ EXCEPT !.pc = "fallback", !.static_body = ServedBody,
                        !.driver = "held", !.gets = @ + 1]
         ELSE [@ EXCEPT !.pc = "render", !.static_body = ServedBody,
                        !.driver = "held"]]
    /\ UNCHANGED <<visited_urls, pc, start_url, current_url, attempt, results,
                   exit, result, posts, request, soup, parsed, call, ret>>

\* asyncio.sleep(1) is over: driver.page_source is returned, the finally
\* clause quits the driver.
RenderReturn(r, su) ==
    /\ fetch[r].pc = "render"
    /\ fetch' = [fetch EXCEPT ![r] = Finally([@ EXCEPT !.pc = "returned",
                    !.body = RenderedBody, !.status = 200,
                    !.path = "rendered"])]
    /\ Deliver(r, su)
    /\ UNCHANGED <<soup, parsed, call, ret>>

\* What the second client.get can bring: the text of a response of any
\* status (there is no raise_for_status on this path) or a transport error.
FallbackResponses ==
    {[transport |-> "error", status_code |-> 0, text |-> None]} \cup
    {[transport |-> "ok", status_code |-> sc, text |-> b] :
        sc \in {200, 500}, b \in {ServedBody, ChangedBody}}

\* The answer to the second client.get arrives: response.text is returned
\* whatever the status, a transport error becomes "All scraping methods
\* failed"; the finally clause quits the driver, if any.
FallbackReturn(r, resp, su) ==
    /\ fetch[r].pc = "fallback"
    /\ IF resp.transport = "error"
       THEN /\ fetch' = [fetch EXCEPT ![r] = Finally([@ EXCEPT
                           !.pc = "returned", !.error = TRUE,
                           !.path = "fallback_error"])]
            /\ DeliverError(r)
       ELSE /\ fetch' = [fetch EXCEPT ![r] = Finally([@ EXCEPT
                           !.pc = "returned", !.body = resp.text,
                           !.status = resp.status_code,
                           !.path = "fallback"])]
            /\ Deliver(r, su)
    /\ UNCHANGED <<soup, parsed, call, ret>>

\* The step deadline cancels the step while scrape_page is suspended.
\* CancelledError passes `except Exception`: in the static client.get it
\* leaves scrape_page at once, in asyncio.sleep(1) it runs the finally
\* clause on its way out, and both end in the timeout result. In the
\* second client.get the bare `except:` catches it: scrape_page returns
\* (None, error) and the step ends as a failed fetch.
FetchCancel(r) ==
    /\ pc[r] = "scrape"
    /\ fetch[r].pc \in {"get", "render", "fallback"}
    /\ fetch' = [fetch EXCEPT ![r] = Finally([@ EXCEPT !.pc = "returned",
                    !.error = (fetch[r].pc = "fallback"),
                    !.path = "cancelled_" \o fetch[r].pc])]
    /\ IF fetch[r].pc = "fallback"
       THEN ScrapeErrorStep(r)
       ELSE StepTimeoutStep(r)
    /\ UNCHANGED <<soup, parsed, call, ret>>

\* --------------------------- data_processor._scrape_with_js_detection
\* process_quiz_task needs no data source: no await suspends. The page
\* has been parsed and the locals of its retrieval are dead.
ResolveDirect(r, ans) ==
    /\ fetch[r].pc = "returned"
    /\ (ResolveReturnStep(r, ans) \/ QuizResolveReturnStep(r, ans))
    /\ fetch' = [fetch EXCEPT ![r] = FetchIdle]
    /\ UNCHANGED <<soup, parsed, call, ret>>

\* The task has a data source: client.get(data_source) is sent.
DataSourceGet(r) ==
    /\ pc[r] \in {"resolve", "q_resolve"}
    /\ fetch[r].pc = "returned"
    /\ fetch' = [fetch EXCEPT ![r] = [FetchIdle EXCEPT !.pc = "ds_get"]]
    /\ UNCHANGED <<visited_urls, pc, start_url, current_url, attempt, results,
                   exit, result, posts, request, soup, parsed, call, ret>>

\* The answer arrives. An error, a status other than 200, a page that needs
\* no rendering, a webdriver.Chrome that raises and a driver.get that raises
\* (the driver is quit by the finally clause before the except clause runs)
\* all return without a driver; else the code sleeps with the driver held.
DataSourceArrives(r, loaded) ==
    /\ fetch[r].pc = "ds_get"
    /\ pc[r] \in {"resolve", "q_resolve"}
    /\ fetch' = [fetch EXCEPT ![r] =
                   IF loaded THEN [@ EXCEPT !.pc = "ds_render", !.driver = "held"]
                   ELSE [@ EXCEPT !.pc = "ds_done"]]
    /\ UNCHANGED <<visited_urls, pc, start_url, current_url, attempt, results,
                   exit, result, posts, request, soup, parsed, call, ret>>

\* asyncio.sleep(1) is over: page_source is returned through the finally
\* clause, which quits the driver.
DataSourceRendered(r) ==
    /\ fetch[r].pc = "ds_render"
    /\ pc[r] \in {"resolve", "q_resolve"}
    /\ fetch' = [fetch EXCEPT ![r] = Finally([@ EXCEPT !.pc = "ds_done"])]
    /\ UNCHANGED <<visited_urls, pc, start_url, current_url, attempt, results,
                   exit, result, posts, request, soup, parsed, call, ret>>

\* The handler returns its result with the data source retrieved or not.
ResolveAfterData(r, ans) ==
    /\ fetch[r].pc = "ds_done"
    /\ (ResolveReturnStep(r, ans) \/ QuizResolveReturnStep(r, ans))
    /\ fetch' = [fetch EXCEPT ![r] = FetchIdle]
    /\ UNCHANGED <<soup, parsed, call, ret>>

\* The step deadline cancels the step while the data source is retrieved:
\* CancelledError passes every `except Exception` on its way out, and the
\* finally clause quits the driver the sleep was holding.
DataSourceCancel(r) ==
    /\ pc[r] = "resolve"
    /\ fetch[r].pc \in {"ds_get", "ds_render"}
    /\ fetch' = [fetch EXCEPT ![r] = Finally([@ EXCEPT !.pc = "ds_done",
                    !.path = "cancelled_" \o fetch[r].pc])]
    /\ StepTimeoutStep(r)
    /\ UNCHANGED <<soup, parsed, call, ret>>

\* The two endpoints with the retrievals of a step spelled out.
FetchNext ==
    \/ \E r \in ApiChainRuns :
        \/ \E u \in Urls : StartChain(r, u)
        \/ LoopHead(r)
        \/ FetchCancel(r)
        \/ DataSourceCancel(r)
        \/ \E resp \in Responses : SubmitReturn(r, resp)
        \/ pc[r] = "submit" /\ StepTimeout(r)
    \/ \E r \in QuizRuns :
        \/ \E u \in Urls : StartQuiz(r, u)
        \/ \E resp \in Responses : QuizSubmitReturn(r, resp)
    \/ \E r \in ApiChainRuns \cup QuizRuns :
        \/ FetchStart(r)
        \/ StaticFails(r)
        \/ \E su \in SubmitUrls : StaticPlain(r, su)
        \/ \E chrome \in {"no_driver", "nav_error", "loaded"} : StaticNeedsJs(r, chrome)
        \/ \E su \in SubmitUrls : RenderReturn(r, su)
        \/ \E resp \in FallbackResponses, su \in SubmitUrls :
              FallbackReturn(r, resp, su)
        \/ \E ans \in Answers : ResolveDirect(r, ans)
        \/ DataSourceGet(r)
        \/ \E loaded \in BOOLEAN : DataSourceArrives(r, loaded)
        \/ DataSourceRendered(r)
        \/ \E ans \in Answers : ResolveAfterData(r, ans)

FetchSpec == Init /\ [][FetchNext]_vars

\* -------------------------------------- quiz_parser.parse_quiz_instructions
\* A text is the sequence of its words, which single spaces separate. The
\* words tried: the ones the patterns and the tables below look for, and
\* words they do not.
QuestionWords == {"Q1.", "Scrape", "Find", "data", "POST"}
ClassWords == {"sum", "csv", "Find", "chart", "api", "Scrape", "code", "true",
               "json", "file"}

\* len(word)
Chars(w) ==
    CASE w \in {"Q1.", "sum", "csv", "api"} -> 3
      [] w \in {"Find", "data", "POST", "code", "true", "json", "file"} -> 4
      [] w \in {"/data", "chart"} -> 5
      [] w = "Scrape" -> 6
      [] w = "/submit" -> 7

\* str.lower() on a word.
Lower(w) ==
    CASE w = "Q1." -> "q1."
      [] w = "Scrape" -> "scrape"
      [] w = "Find" -> "find"
      [] w = "POST" -> "post"
      [] OTHER -> w

\* The index in the text of the first character of word k, counted from 0.
RECURSIVE Start(_, _)
Start(text, k) ==
    IF k = 1 THEN 0 ELSE Start(text, k - 1) + Chars(text[k - 1]) + 1

\* len(text)
TextLen(text) ==
    IF text = <<>> THEN 0 ELSE Start(text, Len(text)) + Chars(text[Len(text)])

\* A page holds some of these phrases, in this order: a request for a sum,
\* a page to scrape and an endpoint to submit to.
PagePhrases == {"sum", "scrape /data", "/submit"}
PageText(P) ==
    (IF "sum" \in P THEN <<"sum">> ELSE <<>>) \o
    (IF "scrape /data" \in P THEN <<"Scrape", "/data">> ELSE <<>>) \o
    (IF "/submit" \in P THEN <<"/submit">> ELSE <<>>)
Pages == {PageText(P) : P \in SUBSET PagePhrases}

\* text.lower(), as the set of its words: no word above holds a word of the
\* tables other than itself, and none of them is 'get secret'.
WordsOf(text) == {Lower(text[i]) : i \in 1..Len(text)}

\* _determine_task_type: the first row with a word in the text wins.
TaskTypeTable ==
    << <<"calculation", {"sum", "total", "calculate", "count"}>>,
       <<"data_extraction", {"download", "file", "pdf", "csv"}>>,
       <<"data_processing", {"filter", "sort", "find"}>>,
       <<"visualization", {"chart", "graph", "visualize"}>>,
       <<"api_call", {"api", "endpoint"}>>,
       <<"scraping", {"scrape", "extract", "get secret"}>> >>

\* _determine_answer_format, likewise.
AnswerFormatTable ==
    << <<"number", {"number", "sum", "total", "count"}>>,
       <<"string", {"string", "text", "code"}>>,
       <<"boolean", {"true", "false", "boolean"}>>,
       <<"json", {"json", "object"}>>,
       <<"base64", {"base64", "file", "attachment"}>> >>

\* The if/elif chain over a table, with its else value.
RECURSIVE FirstMatch(_, _, _, _)
FirstMatch(table, i, words, default) ==
    IF i > Len(table) THEN default
    ELSE IF table[i][2] \cap words # {} THEN table[i][1]
    ELSE FirstMatch(table, i + 1, words, default)

_determine_task_type(text) == FirstMatch(TaskTypeTable, 1, WordsOf(text), "general")
_determine_answer_format(text) == FirstMatch(AnswerFormatTable, 1, WordsOf(text), "unknown")

\* The patterns of _extract_question, lines 72-79, in their order: a
\* numbered question `Q\d+\.\s*(.+)`, four verbs `([Ss]crape\s+.+?)(?:\.|
\* POST|$)` and the first phrase `^(.{20,100}?)(?:\.|POST|$)`.
QuestionPatterns ==
    << [kind |-> "numbered", word |-> "Q1."],
       [kind |-> "verb", word |-> "Scrape"],
       [kind |-> "verb", word |-> "Get"],
       [kind |-> "verb", word |-> "Calculate"],
       [kind |-> "verb", word |-> "Find"],
       [kind |-> "phrase", word |-> ""] >>

\* The bounds of the first phrase, in characters.
PhraseMin == 20
PhraseMax == 100

\* The least element of a set of numbers.
Min(S) == CHOOSE i \in S : \A j \in S : i <= j

\* The places where the word stands with a word after it: `.+` and `.+?`
\* need a character after the white space.
Occurrences(w, text) == {i \in 1..(Len(text) - 1) : text[i] = w}

\* The places where `.+?` of a verb pattern that started at word i can stop:
\* the '.' of a later "Q1.", or a "POST" that is not the word right after
\* the verb, whose first letter `.+?` has to take.
VerbStops(text, i) ==
    {j \in (i + 1)..Len(text) :
        text[j] = "Q1." \/ (text[j] = "POST" /\ j > i + 1)}

\* The text up to the stop in word j: the words before it, and "Q1" when
\* the stop is the '.' of "Q1.".
UpTo(text, i, j) ==
    SubSeq(text, i, j - 1) \o (IF text[j] = "Q1." THEN <<"Q1">> ELSE <<>>)

\* The places where the first phrase can stop, as the index of the stop in
\* the text and the word it is in (Len(text) + 1 for the end of the text):
\* the '.' of a "Q1.", a "POST" or the end, 20 to 100 characters from the
\* start.
PhraseStops(text) ==
    {st \in
        {[at |-> Start(text, j) + 2, word |-> j] :
            j \in {k \in 1..Len(text) : text[k] = "Q1."}}
        \cup {[at |-> Start(text, j), word |-> j] :
            j \in {k \in 1..Len(text) : text[k] = "POST"}}
        \cup {[at |-> TextLen(text), word |-> Len(text) + 1]} :
     PhraseMin <= st.at /\ st.at <= PhraseMax}

\* re.search(pattern, text) finds a match.
PatternMatches(pattern, text) ==
    IF pattern.kind = "phrase" THEN PhraseStops(text) # {}
    ELSE Occurrences(pattern.word, text) # {}

\* The word the leftmost match starts in.
MatchStart(pattern, text) ==
    IF pattern.kind = "phrase" THEN 1
    ELSE Min(Occurrences(pattern.word, text))

\* match.group(1).strip() of the leftmost match, as its words.
Group(pattern, text) ==
    IF pattern.kind = "numbered"
    THEN SubSeq(text, MatchStart(pattern, text) + 1, Len(text))
    ELSE IF pattern.kind = "verb"
    THEN LET i == MatchStart(pattern, text)
         IN IF VerbStops(text, i) = {} THEN SubSeq(text, i, Len(text))
            ELSE UpTo(text, i, Min(VerbStops(text, i)))
    ELSE LET n == Min({st.at : st \in PhraseStops(text)})
             st == CHOOSE x \in PhraseStops(text) : x.at = n
         IN IF st.word > Len(text) THEN text ELSE UpTo(text, 1, st.word)

\* Lines 86-87: a question that ends with POST loses it.
Clean(question) ==
    IF question # <<>> /\ question[Len(question)] = "POST"
    THEN SubSeq(question, 1, Len(question) - 1)
    ELSE question

\* No question: None.
NoQuestion == <<"None">>

\* The loop of lines 81-90 over the patterns from the k-th on.
RECURSIVE FirstGroup(_, _, _)
FirstGroup(patterns, k, text) ==
    IF k > Len(patterns) THEN NoQuestion
    ELSE IF PatternMatches(patterns[k], text)
    THEN Clean(Group(patterns[k], text))
    ELSE FirstGroup(patterns, k + 1, text)

_extract_question_Earliest(text) ==
    LET M == {k \in 1..Len(QuestionPatterns) :
                PatternMatches(QuestionPatterns[k], text)}
        first == CHOOSE k \in M : \A j \in M :
                    \/ MatchStart(QuestionPatterns[k], text)
                          < MatchStart(QuestionPatterns[j], text)
                    \/ /\ MatchStart(QuestionPatterns[k], text)
                             = MatchStart(QuestionPatterns[j], text)
                       /\ k <= j
    IN IF M = {} THEN NoQuestion
       ELSE Clean(Group(QuestionPatterns[first], text))

_extract_question(text) == FirstGroup(QuestionPatterns, 1, text)

\* _extract_data_source and _extract_submit_url read self.soup: on the
\* pages above, `[Ss]crape\s+([^\s]+)` gives the path after Scrape and
\* `/submit` the endpoint.
_extract_data_source(sp) ==
    IF \E i \in 1..(Len(sp) - 1) : sp[i] = "Scrape" /\ sp[i + 1] = "/data"
    THEN "/data" ELSE "None"
_extract_submit_url(sp) ==
    IF \E i \in 1..Len(sp) : sp[i] = "/submit" THEN "/submit" ELSE "None"

\* Line 18: self.soup = BeautifulSoup(html_content, 'html.parser').
NewSoup_KeepOld(old, html_content) == IF old = NoSoup THEN html_content ELSE old
NewSoup(old, html_content) == html_content

\* The rest of parse_quiz_instructions, from the soup of line 18.
Instructions(sp) ==
    [question |-> _extract_question(sp),
     data_source |-> _extract_data_source(sp),
     task_type |-> _determine_task_type(sp),
     submit_url |-> _extract_submit_url(sp),
     answer_format |-> _determine_answer_format(sp)]

\* The number of calls looked at.
MaxParses == 3

\* Some request calls quiz_parser.parse_quiz_instructions(html_content); the
\* call has no await, so it runs from its first line to its return.
Parse(html_content) ==
    /\ Cardinality(parsed) < MaxParses
    /\ LET sp == NewSoup(soup, html_content)
       IN /\ soup' = sp
          /\ parsed' = parsed \cup {[html_content |-> html_content,
                                     before |-> soup,
                                     instructions |-> Instructions(sp)]}
    /\ UNCHANGED <<visited_urls, pc, start_url, current_url, attempt, results,
                   exit, result, posts, request, fetch, call, ret>>

ParserNext == \E html_content \in Pages : Parse(html_content)

ParserSpec == Init /\ [][ParserNext]_vars

\* --------------------------------------- data_processor.process_quiz_task
\* A key the dict does not have, and the value None of a text entry.
Absent == "<absent>"
NoneStr == "None"

\* dict.get(key, default)
Get(d, key, default) == IF d[key] = Absent THEN default ELSE d[key]

\* The truth value of a text entry.
TruthyStr(v) == v \notin {NoneStr, ""}

TaskTypes == {Absent, NoneStr, "scraping", "data_extraction", "calculation",
              "api_call", "general", "visualization"}
DataSources == {Absent, NoneStr, "/data", "/data.csv", "http://host/page"}
Questions == {Absent, NoneStr, "scrape /data", "POST this JSON",
              "cutoff: 7", "CSV file Cutoff: 33644"}
BaseUrls == {NoneStr, "http://host"}

\* What the data source answers: an error, a page holding a secret code, a
\* page without one, or whitespace only.
Sites == {"error", "code", "page", "blank"}

\* An exception leaving a function.
Raised == [status |-> "raised"]

StartsWithSlash(url) == url \in {"/data", "/data.csv"}
EndsWithCsv(url) == url = "/data.csv"

\* Lines 57-105; the decimal text of a number stands for the number.
_handle_scraping_task(data_source, base_url, site) ==
    IF StartsWithSlash(data_source) /\ ~TruthyStr(base_url)
    THEN [status |-> "error", answer |-> NoneStr]
    ELSE IF site = "error"
    THEN [status |-> "error", answer |-> NoneStr]
    ELSE IF site = "code"
    THEN [status |-> "processed", answer |-> "4821"]
    ELSE IF site = "page"
    THEN [status |-> "processed", answer |-> "page text"]
    ELSE [status |-> "processed", answer |-> ""]

\* re.search(r'cutoff:\s*([0-9]+)', question), the number as text.
CutoffMatch(question) == IF question = "cutoff: 7" THEN "7" ELSE NoneStr

\* The rows csv.reader gives: a header row, if any, and rows of numbers.
LenRows(doc) == (IF doc.header THEN 1 ELSE 0) + Len(doc.data)

\* Lines 198-247, once client.get has answered (fetched) or failed: a
\* failed request raises into the except clause, which only logs, and the
\* function falls to the fallback answer after it.
_process_csv_with_analysis(question, fetched, doc) ==
    IF ~fetched
    THEN [status |-> "processed", answer |-> "33644"]
    ELSE IF LenRows(doc) < 2
    THEN [status |-> "error", answer |-> NoneStr]
    ELSE IF question \in {"cutoff: 7", "CSV file Cutoff: 33644"}
            /\ CutoffMatch(question) # NoneStr
    THEN [status |-> "processed", answer |-> CutoffMatch(question)]
    ELSE [status |-> "processed", answer |-> "33644"]

\* The file a site that answers serves: the header alone when the answer is
\* blank, else two rows of numbers under it.
SiteCsv(site) ==
    [header |-> TRUE,
     data |-> IF site = "blank" THEN <<>> ELSE <<<<1, 2>>, <<3, 4>>>>]

\* Lines 186-194: no try of its own.
_handle_data_extraction(data_source, question, base_url, site) ==
    IF EndsWithCsv(data_source)
    THEN _process_csv_with_analysis(question, site # "error", SiteCsv(site))
    ELSE _handle_scraping_task(data_source, base_url, site)

_handle_calculation == [status |-> "processed", answer |-> "150"]

\* Lines 264-286: 'answer' is None on both paths.
_handle_api_call(site) ==
    [status |-> IF site = "error" THEN "error" ELSE "processed",
     answer |-> NoneStr]

\* Lines 288-314: question.lower() and `in question` raise when the
\* question is None.
_handle_general_task(instructions, base_url, site) ==
    LET question == Get(instructions, "question", "")
        data_source == Get(instructions, "data_source", NoneStr)
    IN IF TruthyStr(data_source) /\ question = NoneStr
       THEN Raised
       ELSE IF TruthyStr(data_source) /\ question = "scrape /data"
       THEN _handle_scraping_task(data_source, base_url, site)
       ELSE IF question = NoneStr
       THEN Raised
       ELSE IF question = "POST this JSON"
       THEN [status |-> "processed", answer |-> "test_answer_123"]
       ELSE [status |-> "processed", answer |-> "default_answer"]

_handle_unknown_task == [status |-> "processed", answer |-> "unknown_answer"]

\* Lines 45-51: except Exception around the dispatch.
TryExcept_Reraise(r) == r
TryExcept(r) ==
    IF r = Raised THEN [status |-> "error", answer |-> NoneStr] ELSE r

process_quiz_task(instructions, base_url, site) ==
    LET task_type == Get(instructions, "task_type", "general")
        data_source == Get(instructions, "data_source", NoneStr)
        question == Get(instructions, "question", NoneStr)
    IN TryExcept(
         IF task_type = "scraping" /\ TruthyStr(data_source)
         THEN _handle_scraping_task(data_source, base_url, site)
         ELSE IF task_type = "data_extraction" /\ TruthyStr(data_source)
         THEN _handle_data_extraction(data_source, question, base_url, site)
         ELSE IF task_type = "calculation" THEN _handle_calculation
         ELSE IF task_type = "api_call" THEN _handle_api_call(site)
         ELSE IF task_type = "general"
         THEN _handle_general_task(instructions, base_url, site)
         ELSE _handle_unknown_task)

\* ------------------------------------- data_processor._extract_secret_code
\* The text after re.sub(r'\s+', ' ', text), as its words: the words of the
\* patterns and numbers of three, four and five digits.
SecretWords == {"secret", "code", "is"}
NumberWords == {"123", "4821", "33644"}
Digits(w) == IF w = "123" THEN 3 ELSE IF w = "4821" THEN 4
             ELSE IF w = "33644" THEN 5 ELSE 0

\* The longest text looked at, in words.
MaxTextLen == 5

Texts == UNION {[1..n -> SecretWords \cup NumberWords] : n \in 0..MaxTextLen}

\* The patterns of lines 168-174 in their order: the words before the
\* group and the least number of digits of the group.
SecretPatterns_NumberFirst ==
    << [words |-> <<>>, digits |-> 5],
       [words |-> <<"secret", "code", "is">>, digits |-> 4],
       [words |-> <<"code", "is">>, digits |-> 4],
       [words |-> <<"secret">>, digits |-> 4],
       [words |-> <<"code">>, digits |-> 4] >>
SecretPatterns ==
    << [words |-> <<"secret", "code", "is">>, digits |-> 4],
       [words |-> <<"code", "is">>, digits |-> 4],
       [words |-> <<"secret">>, digits |-> 4],
       [words |-> <<"code">>, digits |-> 4],
       [words |-> <<>>, digits |-> 5] >>

\* The pattern matches the text from word i on.
MatchesAt(pattern, text, i) ==
    LET n == Len(pattern.words)
    IN /\ i + n <= Len(text)
       /\ SubSeq(text, i, i + n - 1) = pattern.words
       /\ Digits(text[i + n]) >= pattern.digits

\* re.findall(pattern, text): the places of the matches, left to right.
Matches(pattern, text) == {i \in 1..Len(text) : MatchesAt(pattern, text, i)}

\* Lines 176-184: the group of the first match of the first pattern that
\* has one.
RECURSIVE FirstCode(_, _, _)
FirstCode(patterns, k, text) ==
    IF k > Len(patterns) THEN NoneStr
    ELSE IF Matches(patterns[k], text) # {}
    THEN text[Min(Matches(patterns[k], text)) + Len(patterns[k].words)]
    ELSE FirstCode(patterns, k + 1, text)

_extract_secret_code(text) == FirstCode(SecretPatterns, 1, text)

\* ------------------------------------- web_scraper._definitely_needs_js
\* A static body, as what the heuristic reads of it: the length of
\* soup.get_text().strip(), whether that text holds one of 'scrape',
\* 'secret', 'code', 'submit' (the shortest has four letters), and whether a
\* script of the page holds 'document.querySelector'.
MaxVisibleLen == 60
StaticPages ==
    {p \in [len : 0..MaxVisibleLen, vocab : BOOLEAN, markers : BOOLEAN] :
        p.vocab => p.len >= 4}

\* The two lengths the heuristic compares len(text) with.
SufficientLen == 50
NearEmptyLen == 20

\* Lines 37-50.
_definitely_needs_js(page) ==
    IF page.len > SufficientLen /\ page.vocab THEN FALSE
    ELSE page.len < NearEmptyLen /\ page.markers

\* The test of scrape_page, line 25, as it stands and as fix_js_detection.py
\* rewrites it: `... or "document.querySelector" in html_content or ...`.
NeedsRendering(page, patched) ==
    IF patched THEN _definitely_needs_js(page) \/ page.markers
    ELSE _definitely_needs_js(page)

\* ------------------------------------------------- functions on their own
ProcessCalls ==
    {[fn |-> "process_quiz_task",
      instructions |-> [task_type |-> t, data_source |-> d, question |-> q],
      base_url |-> b, site |-> st] :
        t \in TaskTypes, d \in DataSources, q \in Questions, b \in BaseUrls,
        st \in Sites}

SubmitCalls == {[fn |-> "submit_answer", response |-> resp] : resp \in Responses}

SecretCalls == {[fn |-> "_extract_secret_code", text |-> t] : t \in Texts}

\* The largest number in a cell of a CSV file.
MaxCell == 4
CsvRows == [1..2 -> 1..MaxCell]
CsvDocs ==
    {[header |-> h, data |-> d] :
        h \in BOOLEAN,
        d \in {<<>>} \cup {<<x>> : x \in CsvRows}
               \cup {<<x, y>> : x \in CsvRows, y \in CsvRows}}

CsvCalls ==
    {[fn |-> "_process_csv_with_analysis", question |-> q, fetched |-> f,
      doc |-> d] :
        q \in Questions \ {Absent}, f \in BOOLEAN, d \in CsvDocs}

NeedsJsCalls ==
    {[fn |-> "_definitely_needs_js", page |-> p, patched |-> b] :
        p \in StaticPages, b \in BOOLEAN}

Calls == ProcessCalls \cup SubmitCalls \cup CsvCalls \cup NeedsJsCalls

\* One function is about to be called with one of the arguments in C.
InitWith(C) ==
    /\ visited_urls = {}
    /\ pc = [r \in Runs |-> "idle"]
    /\ start_url = [r \in Runs |-> None]
    /\ current_url = [r \in Runs |-> None]
    /\ attempt = [r \in Runs |-> 0]
    /\ results = [r \in Runs |-> NewResults(None)]
    /\ exit = [r \in Runs |-> "none"]
    /\ result = [r \in Runs |-> NewResult(None)]
    /\ posts = {}
    /\ request = [r \in Runs |-> NoRequest]
    /\ fetch = [r \in Runs |-> FetchIdle]
    /\ soup = NoSoup
    /\ parsed = {}
    /\ call \in C
    /\ ret = NoCall

\* The call returns v.
Return(fn, v) ==
    /\ call.fn = fn
    /\ ret = NoCall
    /\ ret' = [fn |-> fn, value |-> v]
    /\ UNCHANGED <<visited_urls, pc, start_url, current_url, attempt, results,
                   exit, result, posts, request, fetch, soup, parsed, call>>

CallProcessQuizTask ==
    /\ call.fn = "process_quiz_task"
    /\ Return("process_quiz_task",
              process_quiz_task(call.instructions, call.base_url, call.site))

CallSubmitAnswer ==
    /\ call.fn = "submit_answer"
    /\ Return("submit_answer", submit_answer(call.response))

CallExtractSecretCode ==
    /\ call.fn = "_extract_secret_code"
    /\ Return("_extract_secret_code", _extract_secret_code(call.text))

CallProcessCsv ==
    /\ call.fn = "_process_csv_with_analysis"
    /\ Return("_process_csv_with_analysis",
              _process_csv_with_analysis(call.question, call.fetched, call.doc))

CallDefinitelyNeedsJs ==
    /\ call.fn = "_definitely_needs_js"
    /\ Return("_definitely_needs_js", NeedsRendering(call.page, call.patched))

PureNext ==
    \/ CallProcessQuizTask
    \/ CallSubmitAnswer
    \/ CallProcessCsv
    \/ CallDefinitelyNeedsJs

PureSpec == InitWith(Calls) /\ [][PureNext]_vars

\* _extract_secret_code over every text.
SecretSpec == InitWith(SecretCalls) /\ [][CallExtractSecretCode]_vars

\* The longest texts looked at, in words.
MaxQuestionLen == 5
MaxClassLen == 3

ExtractCalls ==
    {[fn |-> "_extract_question", text |-> t] :
        t \in UNION {[1..n -> QuestionWords] : n \in 0..MaxQuestionLen}}
    \cup {[fn |-> f, text |-> t] :
            f \in {"_determine_task_type", "_determine_answer_format"},
            t \in UNION {[1..n -> ClassWords] : n \in 0..MaxClassLen}}

CallExtractQuestion ==
    /\ call.fn = "_extract_question"
    /\ Return("_extract_question", _extract_question(call.text))

CallDetermineTaskType ==
    /\ call.fn = "_determine_task_type"
    /\ Return("_determine_task_type", _determine_task_type(call.text))

CallDetermineAnswerFormat ==
    /\ call.fn = "_determine_answer_format"
    /\ Return("_determine_answer_format", _determine_answer_format(call.text))

ExtractNext ==
    \/ CallExtractQuestion
    \/ CallDetermineTaskType
    \/ CallDetermineAnswerFormat

\* The three extractor functions over every text.
ExtractSpec == InitWith(ExtractCalls) /\ [][ExtractNext]_vars

\* ------------------------------------------------------- derived notions
Done(r) == pc[r] = "done"
Chain(r) == results[r].chain
Steps(r) == 1..Len(Chain(r))
ChainUrls(r) == {Chain(r)[i].url : i \in Steps(r)}
InStep(r) == pc[r] \in {"scrape", "resolve", "submit"}

\* ---------------------------------------------------------------- claims
\* C1: a returned run has completed = TRUE exactly when it ended because
\* its last step yielded no next_url, and a run that ended on a cycle, on
\* the attempt cap or on a step whose fetch failed has completed = FALSE.
C1_CompletedIffNoNextUrl ==
    \A r \in Runs : Done(r) =>
        /\ results[r].completed <=> exit[r] = "no_next_url"
        /\ ( \/ exit[r] \in {"cycle", "condition"}
             \/ /\ Len(Chain(r)) > 0
                /\ Chain(r)[Len(Chain(r))].error = "scraping_failed" )
           => ~results[r].completed

\* C2: within one run no URL is processed twice, every processed URL went
\* through the visited set, and a step whose next_url is a URL the run has
\* already processed is the last step: nothing more is processed and the run
\* returns completed = FALSE.
C2_NoUrlProcessedTwice ==
    \A r \in Runs :
        /\ \A i, j \in Steps(r) : i # j => Chain(r)[i].url # Chain(r)[j].url
        /\ InStep(r) => result[r].url \notin ChainUrls(r)
        /\ ChainUrls(r) \subseteq visited_urls
        /\ \A i \in Steps(r) :
              Chain(r)[i].next_url \in {Chain(r)[j].url : j \in 1..i}
              => /\ i = Len(Chain(r))
                 /\ pc[r] \in {"loop", "done"}
                 /\ Done(r) => ~results[r].completed

\* C2 witness: a run followed a verdict back to a URL it had processed and
\* returned on the visited check.
C2_Witness ==
    \E r \in Runs :
        /\ Done(r) /\ exit[r] = "cycle"
        /\ Len(Chain(r)) >= 2
        /\ current_url[r] \in ChainUrls(r)

\* C3: a run is stopped by the visited check only on a URL it processed
\* itself, so what it returns does not depend on the other runs of the
\* process.
C3_RunsIndependent ==
    \A r \in Runs :
        (Done(r) /\ exit[r] = "cycle") => current_url[r] \in ChainUrls(r)

\* C4: at the loop head and at return, len(chain) = total_questions =
\* attempts and attempts <= max_attempts.
C4_AttemptsEqualSteps ==
    \A r \in Runs : pc[r] \in {"loop", "done"} =>
        /\ Len(Chain(r)) = results[r].total_questions
        /\ results[r].total_questions = attempt[r]
        /\ attempt[r] <= max_attempts

\* C5: a returned run all of whose verdicts supplied a next_url the run had
\* not visited has recorded exactly max_attempts steps and is not completed.
C5_FreshChainStopsAtCap ==
    \A r \in Runs :
        ( /\ Done(r)
          /\ Len(Chain(r)) >= 1
          /\ \A i \in Steps(r) :
                /\ Chain(r)[i].next_url \in Urls
                /\ Chain(r)[i].next_url \notin {Chain(r)[j].url : j \in 1..i} )
        => /\ Len(Chain(r)) = max_attempts
           /\ ~results[r].completed

\* C6: a step that ran into the deadline has correct = FALSE and next_url =
\* None, and the run that contains it returns completed = FALSE.
C6_TimeoutRunNotCompleted ==
    \A r \in Runs : \A i \in Steps(r) :
        Chain(r)[i].error = "timeout" =>
            /\ ~Chain(r)[i].correct
            /\ Chain(r)[i].next_url = None
            /\ Done(r) => ~results[r].completed

\* C7: a returned run over at most max_attempts pairwise distinct pages,
\* every one of which was fetched, answered and submitted, is completed and
\* has recorded every one of its pages.
C7_LinearChainCompletes ==
    \A r \in Runs :
        ( /\ Done(r)
          /\ \A i \in Steps(r) : Chain(r)[i].success
          /\ current_url[r] \notin ChainUrls(r)
          /\ Len(Chain(r)) + (IF current_url[r] = None THEN 0 ELSE 1)
                <= max_attempts )
        => /\ results[r].completed
           /\ current_url[r] = None
           /\ results[r].total_questions = Len(Chain(r))

\* C8: a submission request was sent for a step exactly when that step had
\* an answer and a submit URL; a step without a request has correct = FALSE
\* and next_url = None.
Posted(r, k) == \E p \in posts : p.run = r /\ p.step = k

C8_SubmitIffAnswerAndEndpoint ==
    /\ \A p \in posts : p.answer # None /\ p.submit_url # None
    /\ \A r \in Runs :
          /\ pc[r] \in {"submit", "q_submit"} =>
                /\ result[r].answer # None /\ result[r].submit_url # None
                /\ Posted(r, attempt[r])
          /\ pc[r] \in {"scrape", "resolve", "q_scrape", "q_resolve", "q_failed"}
                => ~Posted(r, attempt[r])
          /\ pc[r] = "q_done" =>
                /\ Posted(r, 0) <=>
                      (result[r].answer # None /\ result[r].submit_url # None)
                /\ ~Posted(r, 0) => (~result[r].correct /\ result[r].next_url = None)
          /\ \A k \in Steps(r) :
                /\ Chain(r)[k].error \in {"none", "no_answer_or_submit_url"} =>
                      ( Posted(r, k) <=>
                          ( /\ Chain(r)[k].answer # None
                            /\ Chain(r)[k].submit_url # None ) )
                /\ Chain(r)[k].success => Posted(r, k)
                /\ ~Posted(r, k) =>
                      (~Chain(r)[k].correct /\ Chain(r)[k].next_url = None)

\* C8 witness: both endpoints have sent a submission for one request and
\* have finished another request without sending one.
C8_Witness ==
    /\ \E r \in Runs : pc[r] = "q_done" /\ Posted(r, 0)
    /\ \E r \in Runs :
          /\ Done(r) /\ Len(Chain(r)) = 2
          /\ Posted(r, 1) /\ Chain(r)[1].next_url # None
          /\ ~Posted(r, 2)
          /\ Chain(r)[2].answer = None
          /\ Chain(r)[2].submit_url # None

\* C9: a chain run never fails; it does not leave solve_quiz_chain through an
\* exception.
C9_ChainNeverFails == \A r \in Runs : pc[r] # "raised"

\* C10: at return correct_answers is the number of chain entries whose
\* correct field is true, and lies between 0 and total_questions.
C10_CorrectAnswersCount ==
    \A r \in Runs : Done(r) =>
        /\ results[r].correct_answers =
              Cardinality({i \in Steps(r) : Chain(r)[i].correct})
        /\ 0 <= results[r].correct_answers
        /\ results[r].correct_answers <= results[r].total_questions

\* C10 witness: a returned run with a correct and an incorrect step.
C10_Witness ==
    \E r \in Runs :
        /\ Done(r)
        /\ results[r].correct_answers = 1
        /\ results[r].total_questions = 2

\* The attempt cap is reached: a run over the long site returns with
\* max_attempts steps and a further next_url left unprocessed.
CapReached ==
    \E r \in Runs :
        /\ Done(r) /\ exit[r] = "condition"
        /\ Len(Chain(r)) = max_attempts
        /\ current_url[r] = max_attempts + 1
\* The retrieval of run r's current page has returned to its caller.
Returned(r) ==
    /\ fetch[r].pc = "returned"
    /\ fetch[r].path \in {"static", "static_error", "rendered", "fallback",
                          "fallback_error"}

\* C11: nothing is tried twice: a step sends at most one retrieval of its
\* page and at most one submission, and a run requests a page URL in at
\* most one step.
C11_NoRetry ==
    \A r \in ApiChainRuns :
        /\ fetch[r].gets <= 1
        /\ \A p, q \in posts :
              (p.run = r /\ q.run = r /\ p.step = q.step) => p = q
        /\ \A i, j \in Steps(r) : Chain(r)[i].url = Chain(r)[j].url => i = j

\* C13: scrape_page returns either a body and no error or an error and no
\* body, and a body only from a retrieval that answered with a success
\* status.
C13_FetchBodyOrError ==
    \A r \in ApiChainRuns \cup QuizRuns : Returned(r) =>
        /\ fetch[r].error <=> fetch[r].body = None
        /\ fetch[r].body # None => fetch[r].status = 200

\* C14: when the static retrieval succeeded and rendering failed, the fetch
\* returns the body of that static retrieval with no error.
C14_RenderFailureKeepsStaticBody ==
    \A r \in ApiChainRuns \cup QuizRuns :
        (Returned(r) /\ fetch[r].path \in {"fallback", "fallback_error"}) =>
            /\ ~fetch[r].error
            /\ fetch[r].body = fetch[r].static_body

\* C15: a headless driver is held only inside the retrieval that acquired
\* it, while that retrieval is suspended; once the retrieval has returned
\* or was cancelled, at a step boundary and at the end of a run, the
\* request holds no driver.
C15_DriverReleased ==
    \A r \in Runs : fetch[r].driver = "held" =>
        /\ fetch[r].pc \in {"render", "fallback", "ds_render"}
        /\ pc[r] \in {"scrape", "q_scrape", "resolve", "q_resolve"}

\* A step deadline struck while a driver was held, and the run went on or
\* ended without it.
C15_Witness ==
    \E r \in ApiChainRuns :
        /\ fetch[r].path \in {"cancelled_render", "cancelled_fallback",
                              "cancelled_ds_render"}
        /\ fetch[r].driver = "none"
        /\ pc[r] \in {"loop", "done"}
        /\ Len(Chain(r)) > 0
        /\ Chain(r)[Len(Chain(r))].success = FALSE

\* The status the endpoint answers request r with, 0 while it is served.
HttpStatus(r) ==
    IF pc[r] = "http_400" THEN 400
    ELSE IF pc[r] = "http_403" THEN 403
    ELSE IF pc[r] = "q_failed" THEN 500
    ELSE IF pc[r] \in {"done", "q_done"} THEN 200
    ELSE 0

Blank(req) == strip(req.email) = "" \/ strip(req.secret) = "" \/ req.url = BlankUrl
Authorised(req) == req.email = RegisteredEmail /\ req.secret = RegisteredSecret
NothingDone(r) ==
    /\ result[r] = NewResult(None)
    /\ Len(Chain(r)) = 0
    /\ attempt[r] = 0
    /\ \A p \in posts : p.run # r

\* C12: both endpoints answer a request with a blank email, secret or url
\* with 400 and otherwise one with an unregistered email or a wrong secret
\* with 403, in both cases without fetching a page or submitting an answer;
\* POST /quiz answers 500 when its request is valid and the fetch fails,
\* without resolving or submitting anything.
C12_RequestValidation ==
    /\ \A r \in ApiChainRuns \cup QuizRuns : pc[r] # "idle" =>
          /\ Blank(request[r]) => HttpStatus(r) = 400
          /\ (~Blank(request[r]) /\ ~Authorised(request[r])) => HttpStatus(r) = 403
          /\ HttpStatus(r) \in {400, 403} =>
                (NothingDone(r) /\ (Blank(request[r]) \/ ~Authorised(request[r])))
    /\ \A r \in QuizRuns :
          /\ (pc[r] # "idle" /\ result[r].error = "scraping_failed") =>
                HttpStatus(r) = 500
          /\ HttpStatus(r) = 500 =>
                /\ ~Blank(request[r]) /\ Authorised(request[r])
                /\ result[r].answer = None
                /\ \A p \in posts : p.run # r

\* POST /quiz-chain was answered 403 for a wrong secret and POST /quiz 500
\* for a page that could not be fetched.
C12_Witness ==
    /\ \E r \in ApiChainRuns :
          /\ HttpStatus(r) = 403
          /\ request[r].email = RegisteredEmail
          /\ request[r].url # BlankUrl
    /\ \E r \in QuizRuns : HttpStatus(r) = 500

\* C16: parse_quiz_instructions gives the same instructions for the same
\* page whatever the shared parser instance parsed before, and they are the
\* instructions of that page alone.
C16_ParseDeterministic ==
    /\ \A p, q \in parsed :
          p.html_content = q.html_content => p.instructions = q.instructions
    /\ \A p \in parsed : p.instructions = Instructions(p.html_content)

\* The same page was parsed after two different pages had been left in
\* the parser.
C16_Witness ==
    \E p, q \in parsed :
        /\ p.html_content = q.html_content
        /\ p.before # q.before
        /\ p.before \notin {NoSoup, p.html_content}
        /\ Instructions(p.before) # p.instructions

FailedSubmission(resp) ==
    resp.transport = "error" \/ resp.status_code # 200 \/ ~resp.json

\* C18: submit_answer maps a non-success status, a transport error and an
\* unparseable body to a verdict with correct = FALSE that has a reason
\* entry, holding the error text, and no next_url.
C18_ErrorVerdictHasReason ==
    (call.fn = "submit_answer" /\ ret # NoCall
        /\ FailedSubmission(call.response)) =>
        /\ ret.value.correct = FALSE
        /\ ret.value.next_url = None
        /\ "reason" \in ret.value.keys

\* The places where the text reads "secret code is N", N of four digits or
\* more.
SecretPhrases(text) ==
    {i \in 1..Len(text) :
        /\ i + 3 <= Len(text)
        /\ SubSeq(text, i, i + 2) = <<"secret", "code", "is">>
        /\ Digits(text[i + 3]) >= 4}

\* C19: for a text that reads "secret code is N" with N of at least four
\* digits, secret-code extraction gives exactly N (of the first such
\* phrase), whatever numbers stand before or after it.
C19_SecretCodePhraseWins ==
    (call.fn = "_extract_secret_code" /\ ret # NoCall
        /\ SecretPhrases(call.text) # {}) =>
        ret.value = call.text[Min(SecretPhrases(call.text)) + 3]

\* A five-digit number stands before the phrase, and the four-digit code
\* of the phrase was returned.
C19_Witness ==
    /\ call.fn = "_extract_secret_code"
    /\ call.text = <<"33644", "secret", "code", "is", "4821">>
    /\ ret # NoCall
    /\ ret.value = "4821"

\* The decimal text of a number.
DigitText == <<"0", "1", "2", "3", "4", "5", "6", "7", "8", "9">>
RECURSIVE ToStr(_)
ToStr(n) == IF n < 10 THEN DigitText[n + 1]
            ELSE ToStr(n \div 10) \o DigitText[(n % 10) + 1]

RECURSIVE SumCells(_)
SumCells(data) ==
    IF data = <<>> THEN 0
    ELSE data[1][1] + data[1][2] + SumCells(Tail(data))

\* C20: for a CSV file with a header row and numeric cells, the CSV
\* resolver gives the sum of the cells: 10 for "a,b\n1,2\n3,4\n".
C20_CsvSum ==
    (call.fn = "_process_csv_with_analysis" /\ ret # NoCall
        /\ call.fetched /\ call.doc.header /\ Len(call.doc.data) >= 1) =>
        ret.value.answer = ToStr(SumCells(call.doc.data))

\* C21: every chain run terminates: once in solve_quiz_chain, the request
\* eventually returns from it, whatever next_url the verdicts supply, and it
\* never records more than max_attempts steps.
C21_ChainRunReturns ==
    /\ [](Len(Chain(1)) <= max_attempts)
    /\ (pc[1] = "loop") ~> Done(1)

\* C22: when the deadline of a step strikes, wherever the step is suspended,
\* the run does not fail: the step is recorded as the one synthetic timeout
\* result (success, correct FALSE, next_url None), which is the last entry of
\* the chain, and the run returns without starting another step.
C22_DeadlineGivesTimeoutResult ==
    \A r \in ApiChainRuns :
        /\ fetch[r].path \in {"cancelled_get", "cancelled_render",
                              "cancelled_fallback", "cancelled_ds_get",
                              "cancelled_ds_render"}
              => /\ Done(r)
                 /\ Len(Chain(r)) = attempt[r]
                 /\ Chain(r)[Len(Chain(r))] = TimeoutResult(result[r].url)
        /\ \A i \in Steps(r) : Chain(r)[i].error = "timeout" =>
              /\ i = Len(Chain(r))
              /\ Chain(r)[i] = TimeoutResult(Chain(r)[i].url)
              /\ Done(r)

\* C23: a chain run is sequential. While the page of a step is fetched,
\* nothing of the step has been extracted, resolved or submitted; the step is
\* resolved only after a fetch that returned a body, and submitted only after
\* it was resolved; a step whose fetch returned an error has no submit URL,
\* no answer and no submission; and a step is under way only when the
\* results of all the steps before it are in the chain.
C23_StepsSequential ==
    \A r \in ApiChainRuns :
        /\ fetch[r].pc \in {"get", "render", "fallback"} =>
              /\ pc[r] = "scrape"
              /\ result[r].submit_url = None /\ result[r].answer = None
              /\ ~Posted(r, attempt[r])
        /\ pc[r] = "scrape" =>
              /\ fetch[r].pc \in {"idle", "returned", "ds_done", "get",
                                  "render", "fallback"}
              /\ result[r].answer = None
              /\ ~Posted(r, attempt[r])
        /\ pc[r] = "resolve" =>
              /\ fetch[r].pc \in {"returned", "ds_get", "ds_render", "ds_done"}
              /\ fetch[r].pc = "returned" =>
                    (~fetch[r].error /\ fetch[r].body # None)
              /\ result[r].error = "none"
              /\ result[r].answer = None
              /\ ~Posted(r, attempt[r])
        /\ pc[r] = "submit" =>
              /\ fetch[r].pc = "idle"
              /\ result[r].error = "none"
              /\ result[r].answer # None
              /\ Posted(r, attempt[r])
        /\ InStep(r) =>
              /\ Len(Chain(r)) = attempt[r] - 1
              /\ result[r].url \notin ChainUrls(r)
              /\ \A p \in posts : p.run = r => p.step <= attempt[r]
        /\ \A i \in Steps(r) :
              Chain(r)[i].error = "scraping_failed" =>
                 /\ Chain(r)[i].submit_url = None
                 /\ Chain(r)[i].answer = None
                 /\ ~Chain(r)[i].success
                 /\ ~Posted(r, i)
        /\ (fetch[r].pc = "returned" /\ fetch[r].error) =>
              /\ pc[r] \in {"loop", "done"}
              /\ Chain(r)[Len(Chain(r))].error = "scraping_failed"

\* The first step of a run was fetched, resolved and submitted, and the
\* fetch of its second step returned an error: that step has nothing but
\* the error.
C23_Witness ==
    \E r \in ApiChainRuns :
        /\ Done(r) /\ Len(Chain(r)) = 2
        /\ Chain(r)[1].success /\ Posted(r, 1)
        /\ Chain(r)[2].error = "scraping_failed"
        /\ fetch[r].path = "static_error"
        /\ ~Posted(r, 2)

\* C24: rendering is skipped for a page whose visible text is longer than
\* 20 characters and holds task vocabulary; for every other page it is
\* required exactly when the page holds the script markers.
C24_RenderingHeuristic ==
    (call.fn = "_definitely_needs_js" /\ ret # NoCall) =>
        ret.value = IF call.page.len > 20 /\ call.page.vocab
                    THEN FALSE
                    ELSE call.page.markers

\* The rows of a table one of whose words is in the text.
RowsIn(table, text) ==
    {i \in 1..Len(table) : table[i][2] \cap WordsOf(text) # {}}

\* C25: the question is the capture of the first pattern of the table that
\* matches anywhere in the text, wherever the other patterns match, and None
\* when no pattern matches; task_type and answer_format are the category of
\* the first row of their table with a word in the text, and 'general' and
\* 'unknown' when no row has one.
C25_FirstMatchWins ==
    /\ (call.fn = "_extract_question" /\ ret # NoCall) =>
          LET M == {k \in 1..Len(QuestionPatterns) :
                      PatternMatches(QuestionPatterns[k], call.text)}
          IN /\ M = {} => ret.value = NoQuestion
             /\ M # {} => ret.value =
                   Clean(Group(QuestionPatterns[Min(M)], call.text))
             /\ (Occurrences("Scrape", call.text) # {}
                   /\ Occurrences("Q1.", call.text) = {})
                => ret.value[1] = "Scrape"
    /\ (call.fn = "_determine_task_type" /\ ret # NoCall) =>
          LET R == RowsIn(TaskTypeTable, call.text)
          IN ret.value = IF R = {} THEN "general"
                         ELSE TaskTypeTable[Min(R)][1]
    /\ (call.fn = "_determine_answer_format" /\ ret # NoCall) =>
          LET R == RowsIn(AnswerFormatTable, call.text)
          IN ret.value = IF R = {} THEN "unknown"
                         ELSE AnswerFormatTable[Min(R)][1]

\* "Find data Scrape data data": Find matches first in the text and its
\* capture is the longest, and the capture of Scrape was returned.
C25_Witness ==
    /\ call.fn = "_extract_question"
    /\ call.text = <<"Find", "data", "Scrape", "data", "data">>
    /\ ret # NoCall
    /\ ret.value = <<"Scrape", "data", "data">>

\* C26: the extractor gives a task_type among scraping, data_extraction,
\* calculation, api_call, general and unknown, the values process_quiz_task
\* has a branch for, and an answer_format among number, string, boolean,
\* json, base64 and unknown.
C26_TaskTypeHasBranch ==
    /\ (call.fn = "_determine_task_type" /\ ret # NoCall) =>
          ret.value \in {"scraping", "data_extraction", "calculation",
                         "api_call", "general", "unknown"}
    /\ (call.fn = "_determine_answer_format" /\ ret # NoCall) =>
          ret.value \in {"number", "string", "boolean", "json", "base64",
                         "unknown"}

\* The server answered the submission with the success status of
\* submit_answer, 200, and a JSON body.
Accepted(resp) ==
    resp.transport = "ok" /\ resp.status_code = 200 /\ resp.json

C28_ChainIsLinked ==
    \A r \in Runs : (Done(r) /\ Len(Chain(r)) > 0) =>
        /\ Chain(r)[1].url = results[r].start_url
        /\ results[r].start_url = start_url[r]
        /\ \A i \in Steps(r) : i < Len(Chain(r)) =>
              /\ Chain(r)[i + 1].url = Chain(r)[i].next_url
              /\ Chain(r)[i].next_url # None
        /\ \A i, j \in Steps(r) : Chain(r)[i].url = Chain(r)[j].url => i = j

\* A returned summary of two steps, the second for another page than the
\* first and without a next_url.
C28_Witness ==
    \E r \in Runs :
        /\ Done(r) /\ results[r].completed
        /\ Len(Chain(r)) = 2
        /\ Chain(r)[2].url # start_url[r]
        /\ Chain(r)[2].next_url = None

\* C29: a step that _process_single_quiz returned has success = TRUE exactly
\* when a submission request was sent for it, whatever came back: a
\* submission that failed in transport, got another status than 200 or an
\* unreadable body, or was rejected leaves success = TRUE with correct =
\* FALSE; and only a step with success = TRUE has correct = TRUE or a
\* next_url.
C29_SuccessIffSubmitted ==
    /\ [](\A r \in ApiChainRuns : \A k \in Steps(r) :
            /\ Chain(r)[k].error # "timeout" =>
                  (Chain(r)[k].success <=> Posted(r, k))
            /\ Chain(r)[k].success => Chain(r)[k].error = "none"
            /\ (Chain(r)[k].correct \/ Chain(r)[k].next_url # None)
                  => Chain(r)[k].success)
    /\ [][\A r \in ApiChainRuns : \A resp \in Responses :
            (pc[r] = "submit" /\ SubmitReturn(r, resp)) =>
               /\ result'[r].success
               /\ Posted(r, attempt[r])
               /\ (FailedSubmission(resp) \/ ~resp.has_correct \/ ~resp.correct)
                     => ~result'[r].correct
               /\ FailedSubmission(resp) => result'[r].next_url = None
         ]_vars

\* A run whose first submission was rejected with a next_url and whose
\* second step had no answer to submit: success is TRUE on the first and
\* FALSE on the second.
C29_Witness ==
    \E r \in ApiChainRuns :
        /\ Done(r) /\ Len(Chain(r)) = 2
        /\ Chain(r)[1].success /\ ~Chain(r)[1].correct
        /\ Chain(r)[1].next_url # None
        /\ Chain(r)[2].error = "no_answer_or_submit_url"
        /\ ~Chain(r)[2].success /\ ~Posted(r, 2)

====
